---- MODULE Spec2Model ----
(***************************************************************************)
(* Model of the audio/video batch merger (src/tmp.py): main walks the      *)
(* audio root, pairs every .wav entry with <base>.mp4 of the video root    *)
(* and calls merge_audio_video (ffmpeg through subprocess.run) per pair.   *)
(*                                                                         *)
(* A file name is a sequence of one-character strings, so that             *)
(* str.lower, str.endswith and os.path.splitext are computed, not assumed. *)
(* A path is the sequence of its components: <<root, sub>> or              *)
(* <<root, sub, name>>.                                                    *)
(***************************************************************************)
EXTENDS Integers, Sequences, FiniteSets, TLC

VARIABLES
    audRoot,     \* audio root: entry name -> "dir" | "file"
    audOrder,    \* os.listdir(inp_aud_dir): the entries in the order they are listed
    audFiles,    \* os.listdir of each audio subdirectory, in the order listed
    vidRoot,     \* video root: entry name -> "none" | "file" | "dir"
    vidFiles,    \* entries of each video subdirectory
    outDirs,     \* subdirectories of the output root
    outFiles,    \* files below the output root, as <<sub, name>>
    encoder,     \* what ffmpeg does for an audio file, once it has been run on it
    run,         \* number of the current run of main
    pc,          \* "outer" | "inner" | "encoding" | "done", or the exception main ended with
    subfolders,  \* entries of os.listdir(inp_aud_dir) not yet iterated
    subfolder,   \* loop variable of the outer loop
    files,       \* entries of os.listdir(audio_subfolder) not yet iterated
    running,     \* encoder invocations in progress
    calls,       \* calls of merge_audio_video made by this run, in order
    log,         \* lines printed by this run, in order
    prev         \* calls, log, outDirs and outFiles at the end of the previous run

vars == <<audRoot, audOrder, audFiles, vidRoot, vidFiles, outDirs, outFiles, encoder,
          run, pc, subfolders, subfolder, files, running, calls, log, prev>>

fsIn == <<audRoot, audOrder, audFiles, vidRoot, vidFiles>>

-----------------------------------------------------------------------------
(* Bounds of the model *)

MaxAudio == 2      \* audio subdirectory entries, over all subdirectories
MaxVideo == 2      \* video subdirectory entries, over all subdirectories
MaxRuns == 2       \* runs of main in succession

Subs == {"A", "B"}

x_wav == <<"x", ".", "w", "a", "v">>
x_WAV == <<"x", ".", "W", "A", "V">>
dot_wav == <<".", "w", "a", "v">>
x_txt == <<"x", ".", "t", "x", "t">>
AudioNames == {x_wav, x_WAV, dot_wav, x_txt}

x_mp4 == <<"x", ".", "m", "p", "4">>
dot_mp4 == <<".", "m", "p", "4">>
dot_wav_mp4 == <<".", "w", "a", "v", ".", "m", "p", "4">>
VideoNames == {x_mp4, dot_mp4, dot_wav_mp4}

Range(q) == {q[i] : i \in 1..Len(q)}

\* the orders in which a directory holding the entries T can be listed
Listings(T) ==
    {q \in [1..Cardinality(T) -> T] : \A i, j \in 1..Cardinality(T) : i # j => q[i] # q[j]}

ListingsUpTo(Names, max) ==
    UNION {Listings(T) : T \in {U \in SUBSET Names : Cardinality(U) <= max}}

-----------------------------------------------------------------------------
(* The three root arguments of main *)

inp_aud_dir == <<"aud">>
inp_vid_dir == <<"vid">>
out_vid_dir == <<"out">>

WAV == <<".", "w", "a", "v">>
MP4 == <<".", "m", "p", "4">>
WEBM == <<".", "w", "e", "b", "m">>

NoPath == <<>>

-----------------------------------------------------------------------------
(* String and path functions *)

\* str.lower on one character
LowerChar(c) ==
    CASE c = "W" -> "w"
      [] c = "A" -> "a"
      [] c = "V" -> "v"
      [] c = "X" -> "x"
      [] OTHER -> c

\* str.lower
Lower(s) == [i \in 1..Len(s) |-> LowerChar(s[i])]

\* str.endswith
EndsWith(s, suffix) ==
    /\ Len(s) >= Len(suffix)
    /\ SubSeq(s, Len(s) - Len(suffix) + 1, Len(s)) = suffix

\* file.lower().endswith(".wav")
IsWav(file) == EndsWith(Lower(file), WAV)

\* str.rfind, 1-based; 0 when the character does not occur
RFind(s, c) ==
    LET hits == {i \in 1..Len(s) : s[i] = c}
    IN IF hits = {} THEN 0 ELSE CHOOSE i \in hits : \A j \in hits : j <= i

\* os.path.splitext: the extension starts at the last dot, unless only dots
\* come before that dot in the last component (then there is no extension)
SplitExt(p) ==
    LET sepIndex == RFind(p, "/")
        dotIndex == RFind(p, ".")
    IN IF /\ dotIndex > sepIndex
          /\ \E i \in (sepIndex + 1)..(dotIndex - 1) : p[i] # "."
       THEN <<SubSeq(p, 1, dotIndex - 1), SubSeq(p, dotIndex, Len(p))>>
       ELSE <<p, <<>>>>

\* base_name = os.path.splitext(file)[0]
BaseName(file) == SplitExt(file)[1]

\* os.path.join(path, name)
Join(path, name) == Append(path, name)

\* os.path.isdir on the paths main looks at
IsDir(path) ==
    /\ Len(path) = 2
    /\ \/ path[1] = "aud" /\ audRoot[path[2]] = "dir"
       \/ path[1] = "vid" /\ vidRoot[path[2]] = "dir"
       \/ path[1] = "out" /\ path[2] \in outDirs

\* os.path.exists on the paths main looks at; nothing exists below a
\* regular file
Exists(path) ==
    \/ /\ Len(path) = 2
       /\ \/ path[1] = "aud"
          \/ path[1] = "vid" /\ vidRoot[path[2]] # "none"
          \/ path[1] = "out" /\ path[2] \in outDirs
    \/ /\ Len(path) = 3
       /\ \/ /\ path[1] = "aud"
             /\ audRoot[path[2]] = "dir"
             /\ path[3] \in Range(audFiles[path[2]])
          \/ /\ path[1] = "vid"
             /\ vidRoot[path[2]] = "dir"
             /\ path[3] \in vidFiles[path[2]]
          \/ /\ path[1] = "out"
             /\ <<path[2], path[3]>> \in outFiles

-----------------------------------------------------------------------------
(* The external encoder *)

\* Ways subprocess.run(cmd, check=True) can end: exit status 0; a non-zero
\* exit status (CalledProcessError), with or without an output file left
\* behind; the program could not be started (an OSError such as
\* FileNotFoundError, which is not a CalledProcessError).
Outcomes == {"ok", "exit1", "exit1_partial", "oserror"}

WritesOutput(outcome) == outcome \in {"ok", "exit1_partial"}

RaisesCalledProcessError(outcome) == outcome \in {"exit1", "exit1_partial"}

\* the "-y" argument: overwrite the output file if it exists
Overwrite == TRUE

\* without "-y" ffmpeg refuses to write over an existing file and exits
\* with a non-zero status
Effective(outcome, output_file) ==
    IF ~Overwrite /\ outcome # "oserror" /\ Exists(output_file) THEN "exit1" ELSE outcome

\* a call that starts the child process and does not wait for it
RunDoesNotWait == FALSE

\* subprocess.run returns only when the child process has ended
RunBlocks == TRUE

\* the exceptions the try statement around merge_audio_video catches
Caught(outcome) == RaisesCalledProcessError(outcome)

-----------------------------------------------------------------------------
(* Printed lines *)

FolderSkipped(video_subfolder, sub) ==
    [kind |-> "FolderSkipped", subfolder |-> sub, video |-> video_subfolder,
     audio |-> NoPath, output |-> NoPath]

FileSkipped(video_file, audio_file) ==
    [kind |-> "FileSkipped", subfolder |-> audio_file[2], video |-> video_file,
     audio |-> audio_file, output |-> NoPath]

Merging(audio_file, video_file, output_file) ==
    [kind |-> "Merging", subfolder |-> audio_file[2], video |-> video_file,
     audio |-> audio_file, output |-> output_file]

MergeError(cmd) ==
    [kind |-> "Error", subfolder |-> cmd.audio[2], video |-> cmd.video,
     audio |-> cmd.audio, output |-> cmd.output]

\* the arguments of one call of merge_audio_video
Cmd(video_file, audio_file, output_file) ==
    [video |-> video_file, audio |-> audio_file, output |-> output_file]

-----------------------------------------------------------------------------
(* Initial states: any audio and video tree within the bounds, each         *)
(* directory listed in some order, an empty output root, main about to      *)
(* start its outer loop                                                     *)

TotalAudio(f) == Len(f["A"]) + Len(f["B"])

TotalVideo(f) == Cardinality(f["A"]) + Cardinality(f["B"])

Init ==
    /\ audRoot \in [Subs -> {"dir", "file"}]
    /\ audOrder \in Listings(Subs)
    /\ vidRoot \in [Subs -> {"none", "file", "dir"}]
    /\ audFiles \in [Subs -> ListingsUpTo(AudioNames, MaxAudio)]
    /\ \A s \in Subs : audRoot[s] # "dir" => audFiles[s] = <<>>
    /\ TotalAudio(audFiles) <= MaxAudio
    /\ vidFiles \in [Subs -> SUBSET VideoNames]
    /\ \A s \in Subs : vidRoot[s] # "dir" => vidFiles[s] = {}
    /\ TotalVideo(vidFiles) <= MaxVideo
    /\ outDirs = {}
    /\ outFiles = {}
    /\ encoder = <<>>
    /\ run = 1
    /\ pc = "outer"
    /\ subfolders = audOrder
    /\ subfolder = "A"
    /\ files = <<>>
    /\ running = {}
    /\ calls = <<>>
    /\ log = <<>>
    /\ prev = [calls |-> <<>>, log |-> <<>>, outDirs |-> {}, outFiles |-> {}]

-----------------------------------------------------------------------------
(* main *)

\* os.makedirs without exist_ok
ExistOkOmitted == FALSE

\* the exist_ok argument of os.makedirs
ExistOk == TRUE

\* os.makedirs(path, exist_ok): FALSE when it raises FileExistsError
MakedirsSucceeds(path, exist_ok) == exist_ok \/ ~Exists(path)

\* a test of the entry's type instead of its existence
VideoFolderIsDir(video_subfolder) == IsDir(video_subfolder)

\* no test at all
VideoFolderAssumed(video_subfolder) == TRUE

\* the test that decides whether the video folder is there
VideoFolderFound(video_subfolder) == Exists(video_subfolder)

\* One iteration of the outer loop, up to the start of the inner loop
NextSubfolder ==
    /\ pc = "outer"
    /\ subfolders # <<>>
    /\ LET sub == Head(subfolders)
           audio_subfolder == Join(inp_aud_dir, sub)
           video_subfolder == Join(inp_vid_dir, sub)
           output_subfolder == Join(out_vid_dir, sub)
       IN /\ subfolders' = Tail(subfolders)
          /\ subfolder' = sub
          /\ IF ~IsDir(audio_subfolder)
             THEN UNCHANGED <<pc, outDirs, log, files>>
             ELSE IF ~MakedirsSucceeds(output_subfolder, ExistOk)
             THEN /\ pc' = "FileExistsError"
                  /\ UNCHANGED <<outDirs, log, files>>
             ELSE /\ outDirs' = outDirs \cup {sub}
                  /\ IF ~VideoFolderFound(video_subfolder)
                     THEN /\ log' = Append(log, FolderSkipped(video_subfolder, sub))
                          /\ UNCHANGED <<pc, files>>
                     ELSE /\ files' = audFiles[sub]
                          /\ pc' = "inner"
                          /\ UNCHANGED log
    /\ UNCHANGED <<fsIn, outFiles, encoder, run, running, calls, prev>>

\* One iteration of the inner loop, up to the start of the encoder
NextFile ==
    /\ pc = "inner"
    /\ files # <<>>
    /\ LET file == Head(files)
           audio_subfolder == Join(inp_aud_dir, subfolder)
           video_subfolder == Join(inp_vid_dir, subfolder)
           output_subfolder == Join(out_vid_dir, subfolder)
           base_name == BaseName(file)
           audio_file == Join(audio_subfolder, file)
           video_file == Join(video_subfolder, base_name \o MP4)
           output_file == Join(output_subfolder, base_name \o WEBM)
       IN /\ files' = Tail(files)
          /\ IF ~IsWav(file)
             THEN UNCHANGED <<pc, log, calls, running>>
             ELSE IF ~Exists(video_file)
             THEN /\ log' = Append(log, FileSkipped(video_file, audio_file))
                  /\ UNCHANGED <<pc, calls, running>>
             ELSE /\ log' = Append(log, Merging(audio_file, video_file, output_file))
                  /\ calls' = Append(calls, Cmd(video_file, audio_file, output_file))
                  /\ running' = running \cup {Cmd(video_file, audio_file, output_file)}
                  /\ pc' = IF RunBlocks THEN "encoding" ELSE "inner"
    /\ UNCHANGED <<fsIn, outDirs, outFiles, encoder, run, subfolders, subfolder, prev>>

\* The encoder ends; merge_audio_video returns or raises, and main goes on
\* or ends with the exception
EncoderExit ==
    /\ running # {}
    /\ \E cmd \in running, result \in Outcomes :
        LET outcome == Effective(result, cmd.output)
        IN /\ cmd.audio \in DOMAIN encoder => result = encoder[cmd.audio]
           /\ encoder' = IF cmd.audio \in DOMAIN encoder
                         THEN encoder
                         ELSE (cmd.audio :> result) @@ encoder
           /\ running' = running \ {cmd}
           /\ outFiles' = IF WritesOutput(outcome)
                          THEN outFiles \cup {<<cmd.output[2], cmd.output[3]>>}
                          ELSE outFiles
           /\ IF outcome = "ok"
              THEN /\ pc' = IF pc = "encoding" THEN "inner" ELSE pc
                   /\ UNCHANGED log
              ELSE IF Caught(outcome)
              THEN /\ log' = Append(log, MergeError(cmd))
                   /\ pc' = IF pc = "encoding" THEN "inner" ELSE pc
              ELSE /\ pc' = "OSError"
                   /\ UNCHANGED log
    /\ UNCHANGED <<fsIn, outDirs, run, subfolders, subfolder, files, calls, prev>>

\* The inner loop has no entry left
EndOfFolder ==
    /\ pc = "inner"
    /\ files = <<>>
    /\ pc' = "outer"
    /\ UNCHANGED <<fsIn, outDirs, outFiles, encoder, run, subfolders, subfolder,
                   files, running, calls, log, prev>>

\* The outer loop has no entry left: main returns
Return ==
    /\ pc = "outer"
    /\ subfolders = <<>>
    /\ pc' = "done"
    /\ UNCHANGED <<fsIn, outDirs, outFiles, encoder, run, subfolders, subfolder,
                   files, running, calls, log, prev>>

Returned == pc = "done"

Aborted == pc \in {"OSError", "FileExistsError"}

Ended == Returned \/ Aborted

\* The program is started again on the same trees, with the output root as
\* the previous run left it
RunAgain ==
    /\ Ended
    /\ run < MaxRuns
    /\ run' = run + 1
    /\ prev' = [calls |-> calls, log |-> log, outDirs |-> outDirs, outFiles |-> outFiles]
    /\ pc' = "outer"
    /\ subfolders' = audOrder
    /\ files' = <<>>
    /\ running' = {}
    /\ calls' = <<>>
    /\ log' = <<>>
    /\ UNCHANGED <<fsIn, outDirs, outFiles, encoder, subfolder>>

Next ==
    \/ NextSubfolder
    \/ NextFile
    \/ EncoderExit
    \/ EndOfFolder
    \/ Return
    \/ RunAgain

Spec == Init /\ [][Next]_vars

-----------------------------------------------------------------------------
(* Vocabulary of the properties *)

CountCalls(cmd) == Cardinality({i \in 1..Len(calls) : calls[i] = cmd})

CountLog(line) == Cardinality({i \in 1..Len(log) : log[i] = line})

CallsIn(sub) == {i \in 1..Len(calls) : calls[i].audio[2] = sub}

LinesOf(kind, sub) == {i \in 1..Len(log) : log[i].kind = kind /\ log[i].subfolder = sub}

\* a name without its last four characters: the base name as the
\* specification describes it
StripExt(name) == SubSeq(name, 1, Len(name) - 4)

AudioPath(sub, name) == <<"aud", sub, name>>

VideoPath(sub, name) == <<"vid", sub, StripExt(name) \o MP4>>

OutputPath(sub, name) == <<"out", sub, StripExt(name) \o WEBM>>

\* the audio entries the specification calls source-audio files
WavEntries(sub) == {name \in Range(audFiles[sub]) : IsWav(name)}

\* the outer loop has taken the entry and is through with it
Finished(sub) ==
    /\ sub \notin Range(subfolders)
    /\ ~(subfolder = sub /\ pc \in {"inner", "encoding"})

Pos(q, x) == CHOOSE i \in 1..Len(q) : q[i] = x

\* audio file a comes before audio file b in the traversal
Before(a, b) ==
    \/ Pos(audOrder, a[2]) < Pos(audOrder, b[2])
    \/ a[2] = b[2] /\ Pos(audFiles[a[2]], a[3]) < Pos(audFiles[a[2]], b[3])

-----------------------------------------------------------------------------
(* C1: when a run of main has returned, every base name that is there as  *)
(* a .wav entry (any letter case) of an audio subdirectory and as          *)
(* <base>.mp4 in the video subdirectory of the same name has had exactly   *)
(* one call of merge_audio_video with video = <video_root>/<sub>/<base>.mp4, *)
(* audio = the entry's path and output = <out_root>/<sub>/<base>.webm.     *)
C1_EachPairMergedOnce ==
    Returned =>
        \A sub \in Subs : \A name \in WavEntries(sub) :
            (/\ audRoot[sub] = "dir"
             /\ vidRoot[sub] # "none"
             /\ Exists(VideoPath(sub, name)))
            => CountCalls(Cmd(VideoPath(sub, name), AudioPath(sub, name),
                              OutputPath(sub, name))) = 1

NoVideoEntry(sub) == audRoot[sub] = "dir" /\ vidRoot[sub] = "none"

(* C2: a subdirectory of the audio root whose name has no entry in the     *)
(* video root never has a merge invocation; it has no "folder skipped"     *)
(* notice before the outer loop takes it and exactly one, naming it and    *)
(* the missing path, from then on, the outer loop going on to the next     *)
(* entry; and when main returns the outer loop has taken every entry.      *)
C2_FolderSkippedOnce ==
    \A sub \in Subs :
        NoVideoEntry(sub) =>
            /\ CallsIn(sub) = {}
            /\ Cardinality(LinesOf("FolderSkipped", sub)) = IF Finished(sub) THEN 1 ELSE 0
            /\ CountLog(FolderSkipped(<<"vid", sub>>, sub)) = IF Finished(sub) THEN 1 ELSE 0
            /\ subfolder = sub => pc \notin {"inner", "encoding"}
            /\ Returned => Finished(sub)

\* main has returned after skipping one folder and merging in another
C2_Witness ==
    /\ Returned
    /\ \E sub \in Subs : NoVideoEntry(sub) /\ LinesOf("FolderSkipped", sub) # {}
    /\ calls # <<>>

(* C3: a subdirectory that was skipped because its video subdirectory does *)
(* not exist has no subdirectory in the output root (the output root is    *)
(* empty when the first run starts).                                       *)
C3_NoOutputDirForSkipped ==
    \A sub \in Subs : LinesOf("FolderSkipped", sub) # {} => sub \notin outDirs

(* C4: when a run of main has returned, every base name that is there as a *)
(* .wav entry of a subdirectory present as a directory in both roots, and  *)
(* not as <base>.mp4 in the video subdirectory, has no merge invocation,   *)
(* exactly one "file skipped" notice, and no output file                   *)
(* <out_root>/<sub>/<base>.webm.                                           *)
C4_FileSkippedOnce ==
    Returned =>
        \A sub \in Subs : \A name \in WavEntries(sub) :
            (/\ audRoot[sub] = "dir"
             /\ vidRoot[sub] = "dir"
             /\ ~Exists(VideoPath(sub, name)))
            => /\ \A i \in 1..Len(calls) : calls[i].audio # AudioPath(sub, name)
               /\ Cardinality({i \in LinesOf("FileSkipped", sub) :
                                   log[i].audio = AudioPath(sub, name)}) = 1
               /\ ~Exists(OutputPath(sub, name))

(* C5: no failure of the encoder, be it a non-zero exit status or an       *)
(* exception of the invocation, ends the run: main never ends with an      *)
(* exception.                                                              *)
C5_EncoderFailureNeverAborts == ~Aborted

(* C6: when a run that follows another run on the same trees has ended, it *)
(* has made the same merge invocations as the run before, it has not       *)
(* failed on an output subdirectory or output file that was already there  *)
(* (no FileExistsError, no error line the run before did not print), and   *)
(* the output root holds the same subdirectories and files as after the    *)
(* run before.                                                             *)
C6_SecondRunSame ==
    (run > 1 /\ Ended) =>
        /\ Range(calls) = Range(prev.calls)
        /\ pc # "FileExistsError"
        /\ \A sub \in Subs : \A i \in LinesOf("Error", sub) : log[i] \in Range(prev.log)
        /\ outDirs = prev.outDirs
        /\ outFiles = prev.outFiles

\* a second run has returned after merging over the output of the first
C6_Witness ==
    /\ run = 2
    /\ Returned
    /\ Len(calls) >= 1
    /\ \E i \in 1..Len(calls) : <<calls[i].output[2], calls[i].output[3]>> \in prev.outFiles
    /\ outDirs # {}

(* C7, as stated: a subdirectory of the audio root whose name is a regular *)
(* file in the video root gets, once the outer loop is through with it,    *)
(* exactly one "folder skipped" notice, no "file skipped" notice and no    *)
(* merge invocation.                                                       *)
C7_FileCollisionSkipsFolder ==
    \A sub \in Subs :
        (audRoot[sub] = "dir" /\ vidRoot[sub] = "file" /\ Finished(sub))
        => /\ Cardinality(LinesOf("FolderSkipped", sub)) = 1
           /\ LinesOf("FileSkipped", sub) = {}
           /\ CallsIn(sub) = {}

(* C7, amended: a subdirectory of the audio root whose name is a regular   *)
(* file in the video root never gets a "folder skipped" notice and never a *)
(* merge invocation; its entries are examined, and once the outer loop is  *)
(* through with it every .wav entry of it has exactly one "file skipped"   *)
(* notice.                                                                 *)
C7_FileCollisionSkipsFiles ==
    \A sub \in Subs :
        (audRoot[sub] = "dir" /\ vidRoot[sub] = "file")
        => /\ LinesOf("FolderSkipped", sub) = {}
           /\ CallsIn(sub) = {}
           /\ LinesOf("Merging", sub) = {}
           /\ Finished(sub) =>
                \A name \in Range(audFiles[sub]) :
                    Cardinality({i \in LinesOf("FileSkipped", sub) :
                                     log[i].audio = AudioPath(sub, name)})
                        = IF IsWav(name) THEN 1 ELSE 0

\* the outer loop is through with a subdirectory whose name is a regular
\* file in the video root, and has printed a notice for a .wav entry of it
C7_Witness ==
    \E sub \in Subs :
        /\ audRoot[sub] = "dir"
        /\ vidRoot[sub] = "file"
        /\ Finished(sub)
        /\ LinesOf("FileSkipped", sub) # {}

(* C8: no two merge invocations of a run have the same output path.        *)
C8_OutputPathsDistinct ==
    \A i, j \in 1..Len(calls) : i # j => calls[i].output # calls[j].output

(* C9: at most one encoder invocation is in progress; an entry of the      *)
(* audio root or of an audio subdirectory is taken only when no invocation *)
(* is in progress; and the invocations are made in the order of the        *)
(* traversal.                                                              *)
C9_Sequential ==
    /\ [](Cardinality(running) <= 1)
    /\ [][(files' # files \/ subfolders' # subfolders \/ pc' = "done") => running = {}]_vars
    /\ [](\A i, j \in 1..Len(calls) : i < j => Before(calls[i].audio, calls[j].audio))

\* a second invocation is in progress after the first one has ended
C9_Witness ==
    /\ Len(calls) = 2
    /\ running = {calls[2]}
    /\ pc = "encoding"
    /\ calls[1].audio \in DOMAIN encoder

(* C10: every notice and every invocation for an entry n that ends in      *)
(* ".wav" (any letter case) names the video path <video_sub>/<n without    *)
(* its last four characters>.mp4, and every invocation the output path     *)
(* <out_sub>/<n without its last four characters>.webm.                    *)
C10_BaseNameIsNameMinusExtension ==
    /\ \A i \in 1..Len(log) :
        log[i].kind \in {"FileSkipped", "Merging"}
        => log[i].video = VideoPath(log[i].audio[2], log[i].audio[3])
    /\ \A i \in 1..Len(calls) :
        /\ calls[i].video = VideoPath(calls[i].audio[2], calls[i].audio[3])
        /\ calls[i].output = OutputPath(calls[i].audio[2], calls[i].audio[3])

====
